---------------------------- MODULE Spec2Model ----------------------------
(***************************************************************************)
(* A model of nozomi (src/src/main.rs): parse, extract_loops, the passes   *)
(* optimize_basic, annotate_offset, delay_move_ptr, remove_zero_move_ptr   *)
(* and loop_to_addmul, the Memory tape and the interpreter exec_body.      *)
(*                                                                         *)
(* Values.  A u8 is an integer 0..255 and its arithmetic is taken % 256.   *)
(* A usize is the integer itself while it is below 2^63; a usize at or     *)
(* above 2^63 is written as the negative integer n - 2^64 (the same bits   *)
(* read as an isize), so that the result of wrapping_add_signed on a       *)
(* negative sum is that negative sum.  Every such value is larger than any *)
(* tape length and larger than isize::MAX.                                 *)
(***************************************************************************)
EXTENDS Integers, Sequences, FiniteSets, TLC

\* ------------------------------------------------------------------ bounds

\* Most tree nodes (leaves and Loop nodes) of a tree drawn as a pass input.
MaxNodes == 4
\* Most fragments a source text is put together from.
MaxFrags == 3
\* Cycles allowed per fragment of the source text before a run is given up.
CyclesPerFragment == 700
\* The cycle_count past which a run is given up as not terminating: more than
\* the longest terminating run of the sources drawn takes (two multiply loops
\* of 255 turns, 2556 cycles, with four fragments).
MaxCycles == CyclesPerFragment * MaxFrags

\* ----------------------------------------------------------- value helpers

None == [some |-> FALSE, val |-> <<>>]

Some(v) == [some |-> TRUE, val |-> v]

Max(a, b) == IF a >= b THEN a ELSE b

\* u8::wrapping_add
WrappingAdd(a, b) == (a + b) % 256

\* u8::wrapping_mul
WrappingMul(a, b) == (a * b) % 256

Last(s) == s[Len(s)]

Front(s) == SubSeq(s, 1, Len(s) - 1)

\* ------------------------------------------------------------ instructions

\* enum RawInst
RawInst(op, x) == [op |-> op, x |-> x]

\* enum Inst; body is empty but for Loop
Inst(op, x, body) == [op |-> op, x |-> x, body |-> body]

\* enum InstWithOffset; AddMul(ofs, ofs2, x); body is empty but for Loop
IWO(op, ofs, ofs2, x, body) ==
  [op |-> op, ofs |-> ofs, ofs2 |-> ofs2, x |-> x, body |-> body]

AddI(ofs, x) == IWO("AddI", ofs, 0, x, <<>>)

MovePtr(x) == IWO("MovePtr", 0, 0, x, <<>>)

InitI(ofs, x) == IWO("Init", ofs, 0, x, <<>>)

AddMul(ofs1, ofs2, x) == IWO("AddMul", ofs1, ofs2, x, <<>>)

GetChar(ofs) == IWO("GetChar", ofs, 0, 0, <<>>)

PutChar(ofs) == IWO("PutChar", ofs, 0, 0, <<>>)

Loop(l) == IWO("Loop", 0, 0, 0, l)

\* ------------------------------------------------------------------- parse

ParseChar(insts, ch) ==
  CASE ch = "+" -> Append(insts, RawInst("AddI", 1))
    [] ch = "-" -> Append(insts, RawInst("AddI", 255))
    [] ch = ">" -> Append(insts, RawInst("MovePtr", 1))
    [] ch = "<" -> Append(insts, RawInst("MovePtr", -1))
    [] ch = "[" -> Append(insts, RawInst("StartLoop", 0))
    [] ch = "]" -> Append(insts, RawInst("EndLoop", 0))
    [] ch = "." -> Append(insts, RawInst("PutChar", 0))
    [] ch = "," -> Append(insts, RawInst("GetChar", 0))
    [] OTHER -> insts

RECURSIVE ParseFrom(_, _, _)
ParseFrom(code, i, insts) ==
  IF i > Len(code) THEN insts
  ELSE ParseFrom(code, i + 1, ParseChar(insts, code[i]))

parse(code) == ParseFrom(code, 1, <<>>)

\* ----------------------------------------------------------- extract_loops

\* last.push(inst): append to the body on top of the stack
PushLast(loop_stack, inst) ==
  [loop_stack EXCEPT ![Len(loop_stack)] = Append(@, inst)]

\* One turn of the for loop: None is the early return of a `?`.
ExtractStep(loop_stack, raw_inst) ==
  IF Len(loop_stack) = 0 THEN None
  ELSE CASE raw_inst.op = "AddI" ->
              Some(PushLast(loop_stack, Inst("AddI", raw_inst.x, <<>>)))
         [] raw_inst.op = "MovePtr" ->
              Some(PushLast(loop_stack, Inst("MovePtr", raw_inst.x, <<>>)))
         [] raw_inst.op = "GetChar" ->
              Some(PushLast(loop_stack, Inst("GetChar", 0, <<>>)))
         [] raw_inst.op = "PutChar" ->
              Some(PushLast(loop_stack, Inst("PutChar", 0, <<>>)))
         [] raw_inst.op = "StartLoop" ->
              Some(Append(loop_stack, <<>>))
         [] raw_inst.op = "EndLoop" ->
              LET l == Last(loop_stack)
                  popped == Front(loop_stack)
              IN IF Len(popped) = 0 THEN None
                 ELSE Some(PushLast(popped, Inst("Loop", 0, l)))

\* The for loop: the stack it leaves, or None for an early return.
RECURSIVE ExtractFrom(_, _, _)
ExtractFrom(raw_insts, i, loop_stack) ==
  IF i > Len(raw_insts) THEN Some(loop_stack)
  ELSE LET r == ExtractStep(loop_stack, raw_insts[i])
       IN IF r.some THEN ExtractFrom(raw_insts, i + 1, r.val) ELSE None

\* A slip: the check `loop_stack.len() != 1` after the loop is left out.
extract_loops_unchecked(raw_insts) ==
  LET r == ExtractFrom(raw_insts, 1, << <<>> >>)
  IN IF ~r.some THEN None ELSE Some(Last(r.val))

extract_loops(raw_insts) ==
  LET r == ExtractFrom(raw_insts, 1, << <<>> >>)
  IN IF ~r.some THEN None
     ELSE IF Len(r.val) # 1 THEN None
     ELSE Some(Last(r.val))

\* ---------------------------------------------------------- optimize_basic

RECURSIVE optimize_basic(_)

\* A slip: the clear loop is looked for in the body as given, not as optimized.
OptimizeStepRawBody(result, inst) ==
  LET n == Len(result)
  IN CASE inst.op = "AddI" ->
            IF n > 0 /\ result[n].op = "AddI"
            THEN [result EXCEPT ![n].x = WrappingAdd(@, inst.x)]
            ELSE IF n > 0 /\ result[n].op = "Init"
            THEN [result EXCEPT ![n].x = WrappingAdd(@, inst.x)]
            ELSE Append(result, Inst("AddI", inst.x, <<>>))
       [] inst.op = "MovePtr" ->
            IF n > 0 /\ result[n].op = "MovePtr"
            THEN [result EXCEPT ![n].x = @ + inst.x]
            ELSE Append(result, Inst("MovePtr", inst.x, <<>>))
       [] inst.op = "Loop" ->
            IF inst.body = << Inst("AddI", 255, <<>>) >>
            THEN Append(result, Inst("Init", 0, <<>>))
            ELSE Append(result, Inst("Loop", 0, optimize_basic(inst.body)))
       [] OTHER -> Append(result, inst)

\* A slip: a loop is never taken for a clear loop.
OptimizeStepNoClear(result, inst) ==
  LET n == Len(result)
  IN CASE inst.op = "AddI" ->
            IF n > 0 /\ result[n].op = "AddI"
            THEN [result EXCEPT ![n].x = WrappingAdd(@, inst.x)]
            ELSE IF n > 0 /\ result[n].op = "Init"
            THEN [result EXCEPT ![n].x = WrappingAdd(@, inst.x)]
            ELSE Append(result, Inst("AddI", inst.x, <<>>))
       [] inst.op = "MovePtr" ->
            IF n > 0 /\ result[n].op = "MovePtr"
            THEN [result EXCEPT ![n].x = @ + inst.x]
            ELSE Append(result, Inst("MovePtr", inst.x, <<>>))
       [] inst.op = "Loop" ->
            Append(result, Inst("Loop", 0, optimize_basic(inst.body)))
       [] OTHER -> Append(result, inst)

\* One turn of the for loop of optimize_basic.
OptimizeStep(result, inst) ==
  LET n == Len(result)
  IN CASE inst.op = "AddI" ->
            IF n > 0 /\ result[n].op = "AddI"
            THEN [result EXCEPT ![n].x = WrappingAdd(@, inst.x)]
            ELSE IF n > 0 /\ result[n].op = "Init"
            THEN [result EXCEPT ![n].x = WrappingAdd(@, inst.x)]
            ELSE Append(result, Inst("AddI", inst.x, <<>>))
       [] inst.op = "MovePtr" ->
            IF n > 0 /\ result[n].op = "MovePtr"
            THEN [result EXCEPT ![n].x = @ + inst.x]
            ELSE Append(result, Inst("MovePtr", inst.x, <<>>))
       [] inst.op = "Loop" ->
            LET optimized_body == optimize_basic(inst.body)
            IN IF optimized_body = << Inst("AddI", 255, <<>>) >>
               THEN Append(result, Inst("Init", 0, <<>>))
               ELSE Append(result, Inst("Loop", 0, optimized_body))
       [] OTHER -> Append(result, inst)

RECURSIVE OptimizeFrom(_, _, _)
OptimizeFrom(insts, i, result) ==
  IF i > Len(insts) THEN result
  ELSE OptimizeFrom(insts, i + 1, OptimizeStep(result, insts[i]))

optimize_basic(insts) == OptimizeFrom(insts, 1, <<>>)

\* --------------------------------------------------------- annotate_offset

RECURSIVE annotate_offset(_)

AnnotateInst(inst) ==
  CASE inst.op = "AddI" -> AddI(0, inst.x)
    [] inst.op = "MovePtr" -> MovePtr(inst.x)
    [] inst.op = "Init" -> InitI(0, inst.x)
    [] inst.op = "GetChar" -> GetChar(0)
    [] inst.op = "PutChar" -> PutChar(0)
    [] inst.op = "Loop" -> Loop(annotate_offset(inst.body))

RECURSIVE AnnotateFrom(_, _, _)
AnnotateFrom(insts, i, result) ==
  IF i > Len(insts) THEN result
  ELSE AnnotateFrom(insts, i + 1, Append(result, AnnotateInst(insts[i])))

annotate_offset(insts) == AnnotateFrom(insts, 1, <<>>)

\* ---------------------------------------------------------- delay_move_ptr

RECURSIVE delay_move_ptr(_)

\* One turn of the for loop; acc is the pair of locals [offset, result].
DelayStep(acc, inst) ==
  LET offset == acc.offset
      result == acc.result
  IN CASE inst.op = "AddI" ->
            [acc EXCEPT !.result = Append(result, AddI(inst.ofs + offset, inst.x))]
       [] inst.op = "MovePtr" ->
            [acc EXCEPT !.offset = offset + inst.x]
       [] inst.op = "Init" ->
            [acc EXCEPT !.result = Append(result, InitI(inst.ofs + offset, inst.x))]
       [] inst.op = "AddMul" ->
            [acc EXCEPT !.result =
               Append(result, AddMul(inst.ofs + offset, inst.ofs2 + offset, inst.x))]
       [] inst.op = "GetChar" ->
            [acc EXCEPT !.result = Append(result, GetChar(inst.ofs + offset))]
       [] inst.op = "PutChar" ->
            [acc EXCEPT !.result = Append(result, PutChar(inst.ofs + offset))]
       [] inst.op = "Loop" ->
            [offset |-> 0,
             result |-> Append(Append(result, MovePtr(offset)),
                               Loop(delay_move_ptr(inst.body)))]

RECURSIVE DelayFrom(_, _, _)
DelayFrom(insts, i, acc) ==
  IF i > Len(insts) THEN acc
  ELSE DelayFrom(insts, i + 1, DelayStep(acc, insts[i]))

\* A slip: the pending offset is not flushed at the end of the sequence.
DelayFlushNever(acc) == acc.result

\* The flush after the for loop.
DelayFlush(acc) ==
  IF acc.offset # 0 THEN Append(acc.result, MovePtr(acc.offset)) ELSE acc.result

delay_move_ptr(insts) ==
  DelayFlush(DelayFrom(insts, 1, [offset |-> 0, result |-> <<>>]))

\* ---------------------------------------------------- remove_zero_move_ptr

RECURSIVE remove_zero_move_ptr(_)

\* A slip: loop bodies are kept as they are.
RemoveZeroInstShallow(inst) ==
  CASE inst.op = "MovePtr" -> IF inst.x # 0 THEN Some(inst) ELSE None
    [] OTHER -> Some(inst)

\* The closure of filter_map.
RemoveZeroInst(inst) ==
  CASE inst.op = "MovePtr" -> IF inst.x # 0 THEN Some(inst) ELSE None
    [] inst.op = "Loop" -> Some(Loop(remove_zero_move_ptr(inst.body)))
    [] OTHER -> Some(inst)

RECURSIVE RemoveZeroFrom(_, _, _)
RemoveZeroFrom(insts, i, result) ==
  IF i > Len(insts) THEN result
  ELSE LET r == RemoveZeroInst(insts[i])
       IN RemoveZeroFrom(insts, i + 1,
                         IF r.some THEN Append(result, r.val) ELSE result)

remove_zero_move_ptr(insts) == RemoveZeroFrom(insts, 1, <<>>)

\* ---------------------------------------------------------- loop_to_addmul

\* The first for loop of loop_to_addmul_body; acc is [ok, base_add, add_ops],
\* ok = FALSE once the loop has returned None.
RECURSIVE AddMulScan(_, _, _)
AddMulScan(insts, i, acc) ==
  IF i > Len(insts) \/ ~acc.ok THEN acc
  ELSE LET inst == insts[i]
       IN IF inst.op = "AddI"
          THEN IF inst.ofs = 0
               THEN AddMulScan(insts, i + 1,
                      [acc EXCEPT !.base_add = WrappingAdd(@, inst.x)])
               ELSE AddMulScan(insts, i + 1,
                      [acc EXCEPT !.add_ops = Append(@, <<inst.ofs, inst.x>>)])
          ELSE [acc EXCEPT !.ok = FALSE]

\* The second for loop: one AddMul(0, ofs, x) per pair of add_ops.
RECURSIVE AddMulEmit(_, _, _)
AddMulEmit(add_ops, i, result) ==
  IF i > Len(add_ops) THEN result
  ELSE AddMulEmit(add_ops, i + 1,
                  Append(result, AddMul(0, add_ops[i][1], add_ops[i][2])))

\* A slip: the counter is cleared before it is multiplied.
loop_to_addmul_body_init_first(insts) ==
  LET acc == AddMulScan(insts, 1, [ok |-> TRUE, base_add |-> 0, add_ops |-> <<>>])
  IN IF ~acc.ok THEN None
     ELSE IF acc.base_add # 255 THEN None
     ELSE Some(<<InitI(0, 0)>> \o AddMulEmit(acc.add_ops, 1, <<>>))

loop_to_addmul_body(insts) ==
  LET acc == AddMulScan(insts, 1, [ok |-> TRUE, base_add |-> 0, add_ops |-> <<>>])
  IN IF ~acc.ok THEN None
     ELSE IF acc.base_add # 255 THEN None
     ELSE Some(Append(AddMulEmit(acc.add_ops, 1, <<>>), InitI(0, 0)))

RECURSIVE loop_to_addmul(_)

\* The closure of map: a qualifying loop stays a Loop around the new body.
LoopToAddmulInst(inst) ==
  IF inst.op = "Loop"
  THEN LET new_insts == loop_to_addmul_body(inst.body)
       IN IF new_insts.some THEN Loop(new_insts.val)
          ELSE Loop(loop_to_addmul(inst.body))
  ELSE inst

RECURSIVE LoopToAddmulFrom(_, _, _)
LoopToAddmulFrom(insts, i, result) ==
  IF i > Len(insts) THEN result
  ELSE LoopToAddmulFrom(insts, i + 1, Append(result, LoopToAddmulInst(insts[i])))

loop_to_addmul(insts) == LoopToAddmulFrom(insts, 1, <<>>)

\* ------------------------------------------------------------------ Memory

\* a < b for usize values (a negative integer stands for a value >= 2^63)
ULt(a, b) == IF (a < 0) = (b < 0) THEN a < b ELSE b < 0

UMax(a, b) == IF ULt(a, b) THEN b ELSE a

\* struct Memory(Vec<u8>): len is the Vec's length, cells its non-zero bytes
\* (index -> byte); every other index below len holds 0.
Memory(len, cells) == [len |-> len, cells |-> cells]

\* impl Index for Memory: self.0.get(index).unwrap_or(&0)
MemIndex(memory, index) ==
  IF ~ULt(index, memory.len) THEN 0
  ELSE IF index \in DOMAIN memory.cells THEN memory.cells[index] ELSE 0

\* The assignment through the reference index_mut returns.
StoreCell(cells, index, x) ==
  IF x = 0
  THEN [i \in DOMAIN cells \ {index} |-> cells[i]]
  ELSE [i \in DOMAIN cells \cup {index} |-> IF i = index THEN x ELSE cells[i]]

\* A slip: the tape grows to index + 1 only.
IndexMutGrowExact(memory, index, overflow_checks) ==
  LET current_len == memory.len
  IN IF ~ULt(index, current_len)
     THEN [panic |-> "", len |-> index + 1]
     ELSE [panic |-> "", len |-> current_len]

\* impl IndexMut for Memory: the length after index_mut(index), or the panic it
\* ends in.  overflow_checks is the build's setting for `index + 1`.
IndexMutGrow(memory, index, overflow_checks) ==
  LET current_len == memory.len
  IN IF ~ULt(index, current_len)
     THEN IF index = -1 /\ overflow_checks
          THEN [panic |-> "panic_add_overflow", len |-> current_len]
          ELSE LET next_len == UMax(index + 1, UMax(current_len * 2, 30000))
               IN IF next_len < 0
                  THEN [panic |-> "panic_capacity_overflow", len |-> current_len]
                  ELSE IF ~ULt(index, next_len)
                  THEN [panic |-> "panic_index_out_of_bounds", len |-> next_len]
                  ELSE [panic |-> "", len |-> next_len]
     ELSE [panic |-> "", len |-> current_len]

\* memory[index] = x: the tape after it and the panic it ends in ("" for none)
MemStore(memory, index, x, overflow_checks) ==
  LET g == IndexMutGrow(memory, index, overflow_checks)
  IN IF g.panic # ""
     THEN [panic |-> g.panic, memory |-> Memory(g.len, memory.cells)]
     ELSE [panic |-> "", memory |-> Memory(g.len, StoreCell(memory.cells, index, x))]

\* Memory(vec![0u8; 30000])
EmptyCells == [i \in {} |-> 0]

FreshMemory == Memory(30000, EmptyCells)

\* ----------------------------------------------------------------- getchar

\* usize::checked_add_signed: None when the sum is negative
CheckedAddSigned(p, ofs) == IF p + ofs < 0 THEN None ELSE Some(p + ofs)

\* usize::wrapping_add_signed: a negative sum is the usize 2^64 + sum
WrappingAddSigned(p, ofs) == p + ofs

\* print!("{}", x as char): the bytes of the char U+00xx in UTF-8
putchar(x) == IF x < 128 THEN <<x>> ELSE <<192 + (x \div 64), 128 + (x % 64)>>

\* ------------------------------------------------------------------- state

VARIABLES
  code,         \* main: the source text, a sequence of characters
  stdin0,       \* the bytes standard input holds when the process starts
  mem0,         \* the tape a run starts from (exec: FreshMemory)
  ptr0,         \* the pointer a run starts from (exec: 0)
  pc,           \* the step of main to take next
  raw_insts,    \* main: parse's result
  tree,         \* main: extract_loops' result (line 302)
  optimized,    \* main: optimize_basic's result (line 303)
  prev,         \* the input of the pass applied last
  insts,        \* main: the InstWithOffset sequence (lines 304-307)
  mode,         \* which sequence the engine runs: "main" or "ref"
  stack,        \* the exec_body activations, outermost first: [insts, pc]
  memory,       \* exec: memory
  ptr,          \* exec: ptr
  cycle_count,  \* exec: cycle_count
  stdin,        \* the bytes not yet read from standard input
  stdout,       \* the bytes written to standard output
  trace,        \* the getchar and putchar calls made, with their bytes
  status,       \* "idle", "running", "ok", "io_error", a "panic_..." or "timeout"
  main_run,     \* how the run of main's sequence ended, kept for comparison
  last          \* the tape access made last: [op, index, x, before, got]

vars == <<code, stdin0, mem0, ptr0, pc, raw_insts, tree, optimized, prev, insts,
          mode, stack, memory, ptr, cycle_count, stdin, stdout, trace, status,
          main_run, last>>

srcVars == <<code, stdin0, mem0, ptr0>>

passVars == <<raw_insts, tree, optimized, prev, insts>>

execVars == <<mode, stack, memory, ptr, cycle_count, stdin, stdout, trace,
              status, main_run>>

NoRun == [status |-> "none"]

NoAccess == [op |-> "none", index |-> 0, x |-> 0, before |-> FreshMemory, got |-> 0]

\* How a run ended.
RunSummary ==
  [status |-> status, ptr |-> ptr, cells |-> memory.cells, stdin |-> stdin,
   stdout |-> stdout, trace |-> trace, cycle_count |-> cycle_count]

\* ------------------------------------------------------------------- main

\* let raw_insts = parse(&code);
Parse ==
  /\ pc = "parse"
  /\ raw_insts' = parse(code)
  /\ pc' = "extract"
  /\ UNCHANGED <<srcVars, tree, optimized, prev, insts, execVars, last>>

\* let insts = extract_loops(&raw_insts).unwrap();
ExtractLoops ==
  /\ pc = "extract"
  /\ LET r == extract_loops(raw_insts)
     IN IF r.some
        THEN /\ tree' = r.val
             /\ pc' = "optimize"
             /\ status' = status
        ELSE /\ tree' = tree
             /\ pc' = "halt"
             /\ status' = "panic_unwrap_none"
  /\ UNCHANGED <<srcVars, raw_insts, optimized, prev, insts, mode, stack, memory,
                 ptr, cycle_count, stdin, stdout, trace, main_run, last>>

\* let insts = optimize_basic(&insts);
OptimizeBasic ==
  /\ pc = "optimize"
  /\ optimized' = optimize_basic(tree)
  /\ prev' = tree
  /\ pc' = "annotate"
  /\ UNCHANGED <<srcVars, raw_insts, tree, insts, execVars, last>>

\* let insts = annotate_offset(&insts);
AnnotateOffset ==
  /\ pc = "annotate"
  /\ insts' = annotate_offset(optimized)
  /\ prev' = optimized
  /\ pc' = "delay"
  /\ UNCHANGED <<srcVars, raw_insts, tree, optimized, execVars, last>>

\* let insts = delay_move_ptr(&insts);
DelayMovePtr ==
  /\ pc = "delay"
  /\ insts' = delay_move_ptr(insts)
  /\ prev' = insts
  /\ pc' = "clean"
  /\ UNCHANGED <<srcVars, raw_insts, tree, optimized, execVars, last>>

\* let insts = remove_zero_move_ptr(&insts);
RemoveZeroMovePtr ==
  /\ pc = "clean"
  /\ insts' = remove_zero_move_ptr(insts)
  /\ prev' = insts
  /\ pc' = "addmul"
  /\ UNCHANGED <<srcVars, raw_insts, tree, optimized, execVars, last>>

\* let insts = loop_to_addmul(&insts);
LoopToAddmul ==
  /\ pc = "addmul"
  /\ insts' = loop_to_addmul(insts)
  /\ prev' = insts
  /\ pc' = "exec"
  /\ UNCHANGED <<srcVars, raw_insts, tree, optimized, execVars, last>>

\* The state exec_body is entered in, running the sequence l.
Enter(l, m) ==
  /\ mode' = m
  /\ stack' = << [insts |-> l, pc |-> 1] >>
  /\ memory' = mem0
  /\ ptr' = ptr0
  /\ cycle_count' = 0
  /\ stdin' = stdin0
  /\ stdout' = <<>>
  /\ trace' = <<>>
  /\ status' = "running"

\* exec(&insts): a fresh tape, ptr = 0, then exec_body
Exec ==
  /\ pc = "exec"
  /\ Enter(insts, "main")
  /\ pc' = "run"
  /\ UNCHANGED <<srcVars, passVars, main_run, last>>

\* --------------------------------------------------------------- exec_body

Running == status = "running" /\ Len(stack) > 0 /\ cycle_count < MaxCycles

Top == stack[Len(stack)]

\* The for loop of the innermost activation has an instruction left.
AtInst == Top.pc <= Len(Top.insts)

Cur == Top.insts[Top.pc]

\* The for loop goes on to the next instruction.
Advance(stk) == [stk EXCEPT ![Len(stk)].pc = @ + 1]

\* The address of each arm of the match, as the arm computes it.
AddITarget(p, ofs) == CheckedAddSigned(p, ofs)

MovePtrTarget(p, x) == CheckedAddSigned(p, x)

InitTarget(p, ofs) == Some(WrappingAddSigned(p, ofs))

AddMulTarget(p, ofs) == CheckedAddSigned(p, ofs)

GetCharTarget(p, ofs) == CheckedAddSigned(p, ofs)

\* A slip: PutChar takes Init's wrapping address.
PutCharTargetWrapping(p, ofs) == Some(WrappingAddSigned(p, ofs))

PutCharTarget(p, ofs) == CheckedAddSigned(p, ofs)

\* None.unwrap()
PanicUnwrap ==
  /\ status' = "panic_unwrap_none"
  /\ UNCHANGED <<stack, memory>>

\* memory[index] = x, then on to the next instruction unless index_mut panics
StoreAndGo(index, x, overflow_checks) ==
  LET w == MemStore(memory, index, x, overflow_checks)
  IN /\ memory' = w.memory
     /\ IF w.panic = ""
        THEN status' = status /\ stack' = Advance(stack)
        ELSE status' = w.panic /\ stack' = stack

ExecAddI ==
  /\ Running /\ AtInst /\ Cur.op = "AddI"
  /\ cycle_count' = cycle_count + 1
  /\ LET index == AddITarget(ptr, Cur.ofs)
     IN IF ~index.some THEN PanicUnwrap
        ELSE StoreAndGo(index.val,
                        WrappingAdd(MemIndex(memory, index.val), Cur.x), TRUE)
  /\ UNCHANGED <<srcVars, pc, passVars, mode, ptr, stdin, stdout, trace,
                 main_run, last>>

ExecMovePtr ==
  /\ Running /\ AtInst /\ Cur.op = "MovePtr"
  /\ cycle_count' = cycle_count + 1
  /\ LET p == MovePtrTarget(ptr, Cur.x)
     IN IF ~p.some THEN PanicUnwrap /\ ptr' = ptr
        ELSE /\ ptr' = p.val
             /\ stack' = Advance(stack)
             /\ UNCHANGED <<memory, status>>
  /\ UNCHANGED <<srcVars, pc, passVars, mode, stdin, stdout, trace,
                 main_run, last>>

ExecInit ==
  /\ Running /\ AtInst /\ Cur.op = "Init"
  /\ cycle_count' = cycle_count + 1
  /\ \E overflow_checks \in BOOLEAN :
       LET index == InitTarget(ptr, Cur.ofs)
       IN IF ~index.some THEN PanicUnwrap
          ELSE StoreAndGo(index.val, Cur.x, overflow_checks)
  /\ UNCHANGED <<srcVars, pc, passVars, mode, ptr, stdin, stdout, trace,
                 main_run, last>>

ExecAddMul ==
  /\ Running /\ AtInst /\ Cur.op = "AddMul"
  /\ cycle_count' = cycle_count + 1
  /\ LET index1 == AddMulTarget(ptr, Cur.ofs)
         index2 == AddMulTarget(ptr, Cur.ofs2)
     IN IF ~index1.some \/ ~index2.some THEN PanicUnwrap
        ELSE StoreAndGo(index2.val,
                        WrappingAdd(MemIndex(memory, index2.val),
                                    WrappingMul(MemIndex(memory, index1.val), Cur.x)),
                        TRUE)
  /\ UNCHANGED <<srcVars, pc, passVars, mode, ptr, stdin, stdout, trace,
                 main_run, last>>

\* memory[index] = getchar()?  read_exact fails at the end of the input
ExecGetChar ==
  /\ Running /\ AtInst /\ Cur.op = "GetChar"
  /\ cycle_count' = cycle_count + 1
  /\ LET index == GetCharTarget(ptr, Cur.ofs)
     IN IF ~index.some THEN PanicUnwrap /\ UNCHANGED <<stdin, trace>>
        ELSE IF stdin = <<>>
        THEN /\ status' = "io_error"
             /\ UNCHANGED <<stack, memory, stdin, trace>>
        ELSE /\ StoreAndGo(index.val, Head(stdin), TRUE)
             /\ stdin' = Tail(stdin)
             /\ trace' = Append(trace, [ev |-> "getchar", byte |-> Head(stdin)])
  /\ UNCHANGED <<srcVars, pc, passVars, mode, ptr, stdout, main_run, last>>

\* putchar(memory[index])?
ExecPutChar ==
  /\ Running /\ AtInst /\ Cur.op = "PutChar"
  /\ cycle_count' = cycle_count + 1
  /\ LET index == PutCharTarget(ptr, Cur.ofs)
     IN IF ~index.some THEN PanicUnwrap /\ UNCHANGED <<stdout, trace>>
        ELSE /\ stdout' = stdout \o putchar(MemIndex(memory, index.val))
             /\ trace' = Append(trace, [ev |-> "putchar",
                                        byte |-> MemIndex(memory, index.val)])
             /\ stack' = Advance(stack)
             /\ UNCHANGED <<memory, status>>
  /\ UNCHANGED <<srcVars, pc, passVars, mode, ptr, stdin, main_run, last>>

\* The Loop arm up to the first test of `while memory[*ptr] != 0`.
ExecLoop ==
  /\ Running /\ AtInst /\ Cur.op = "Loop"
  /\ cycle_count' = cycle_count + 2
  /\ stack' = IF MemIndex(memory, ptr) # 0
              THEN Append(stack, [insts |-> Cur.body, pc |-> 1])
              ELSE Advance(stack)
  /\ UNCHANGED <<srcVars, pc, passVars, mode, memory, ptr, stdin, stdout, trace,
                 status, main_run, last>>

\* The body's exec_body returns Ok: count, and test the while condition again.
ExecLoopBack ==
  /\ Running /\ ~AtInst /\ Len(stack) > 1
  /\ cycle_count' = cycle_count + 1
  /\ stack' = IF MemIndex(memory, ptr) # 0
              THEN Append(Front(stack), [insts |-> Top.insts, pc |-> 1])
              ELSE Advance(Front(stack))
  /\ UNCHANGED <<srcVars, pc, passVars, mode, memory, ptr, stdin, stdout, trace,
                 status, main_run, last>>

\* The outermost exec_body returns Ok(()).
ExecReturn ==
  /\ Running /\ ~AtInst /\ Len(stack) = 1
  /\ status' = "ok"
  /\ UNCHANGED <<srcVars, pc, passVars, mode, stack, memory, ptr, cycle_count,
                 stdin, stdout, trace, main_run, last>>

\* The run has gone on for MaxCycles cycles: it is given up.
GiveUp ==
  /\ status = "running" /\ cycle_count >= MaxCycles
  /\ status' = "timeout"
  /\ UNCHANGED <<srcVars, pc, passVars, mode, stack, memory, ptr, cycle_count,
                 stdin, stdout, trace, main_run, last>>

\* The reference run: the tree extract_loops built, annotated and run as it is,
\* from the same tape, pointer and input.
Reference ==
  /\ pc = "run" /\ mode = "main" /\ status # "running"
  /\ main_run' = RunSummary
  /\ Enter(annotate_offset(tree), "ref")
  /\ pc' = "refrun"
  /\ UNCHANGED <<srcVars, passVars, last>>

\* The reference run of a single pass: the sequence the pass was given.
ReferencePass ==
  /\ pc = "run" /\ mode = "main" /\ status # "running"
  /\ main_run' = RunSummary
  /\ Enter(prev, "ref")
  /\ pc' = "refrun"
  /\ UNCHANGED <<srcVars, passVars, last>>

\* ------------------------------------------------------------ the pipeline

\* The pieces source texts are put together from.
Fragments ==
  { <<"+">>, <<"-">>, <<">">>, <<"<">>, <<",">>, <<".">>, <<"[">>, <<"]">>,
    <<"[", "-", "]">>,
    <<"[", "-", ">", "+", "<", "]">>,
    <<"[", "-", "<", "+", ">", "]">> }

RECURSIVE SourcesOf(_)
SourcesOf(n) ==
  IF n = 0 THEN { <<>> }
  ELSE LET shorter == SourcesOf(n - 1)
       IN shorter \cup { f \o s : f \in Fragments, s \in shorter }

\* What standard input may hold.
Inputs == { <<>>, <<2, 0>> }

\* The state before anything has run: main is at the step named by label.
StartAt(label, c, input, m0, p0, t, o, i) ==
  /\ code = c
  /\ stdin0 = input
  /\ mem0 = m0
  /\ ptr0 = p0
  /\ pc = label
  /\ raw_insts = <<>>
  /\ tree = t
  /\ optimized = o
  /\ prev = <<>>
  /\ insts = i
  /\ mode = "main"
  /\ stack = <<>>
  /\ memory = m0
  /\ ptr = p0
  /\ cycle_count = 0
  /\ stdin = input
  /\ stdout = <<>>
  /\ trace = <<>>
  /\ status = "idle"
  /\ main_run = NoRun
  /\ last = NoAccess

\* The state main starts in, for the source text c and the input bytes.
Start(c, input) == StartAt("parse", c, input, FreshMemory, 0, <<>>, <<>>, <<>>)

Init == \E c \in SourcesOf(MaxFrags), input \in Inputs : Start(c, input)

Next ==
  \/ Parse
  \/ ExtractLoops
  \/ OptimizeBasic
  \/ AnnotateOffset
  \/ DelayMovePtr
  \/ RemoveZeroMovePtr
  \/ LoopToAddmul
  \/ Exec
  \/ ExecAddI
  \/ ExecMovePtr
  \/ ExecInit
  \/ ExecAddMul
  \/ ExecGetChar
  \/ ExecPutChar
  \/ ExecLoop
  \/ ExecLoopBack
  \/ ExecReturn
  \/ GiveUp
  \/ Reference

Spec == Init /\ [][Next]_vars

\* ------------------------------------------- one input byte, every value

\* Source texts that read one byte: echo, clear, and copy to the next cell.
ByteSources ==
  { <<",", ".">>,
    <<",", "[", "-", "]">>,
    <<",", "[", "-", ">", "+", "<", "]", ">", ".">> }

InitByte == \E c \in ByteSources, b \in 0..255 : Start(c, <<b>>)

NextByte ==
  \/ Parse
  \/ ExtractLoops
  \/ OptimizeBasic
  \/ AnnotateOffset
  \/ DelayMovePtr
  \/ RemoveZeroMovePtr
  \/ LoopToAddmul
  \/ Exec
  \/ ExecAddI
  \/ ExecMovePtr
  \/ ExecInit
  \/ ExecAddMul
  \/ ExecGetChar
  \/ ExecPutChar
  \/ ExecLoop
  \/ ExecLoopBack
  \/ ExecReturn
  \/ Reference

SpecByte == InitByte /\ [][NextByte]_vars

\* ------------------------------------------------- the passes, on any tree

InstLoop(l) == Inst("Loop", 0, l)

\* The Loop node of body b, of enum Inst or of enum InstWithOffset.
LoopOf(with_offset, b) == IF with_offset THEN Loop(b) ELSE InstLoop(b)

\* The sequences of size nodes in all (leaves and Loop nodes, at any depth) whose
\* first node has k nodes or more; sized[i] holds the sequences of i - 1 nodes.
RECURSIVE TreesFrom(_, _, _, _, _)
TreesFrom(sized, size, k, leaves, with_offset) ==
  IF k > size THEN {}
  ELSE LET firsts ==
             IF k = 1 THEN leaves \cup { LoopOf(with_offset, <<>>) }
             ELSE { LoopOf(with_offset, b) : b \in sized[k] }
       IN { <<f>> \o rest : f \in firsts, rest \in sized[size - k + 1] }
            \cup TreesFrom(sized, size, k + 1, leaves, with_offset)

\* The sets of sequences of 0, 1, ..., n nodes, built by size.
RECURSIVE TreesBySize(_, _, _, _)
TreesBySize(sized, n, leaves, with_offset) ==
  IF Len(sized) > n THEN sized
  ELSE TreesBySize(
         Append(sized, TreesFrom(sized, Len(sized), 1, leaves, with_offset)),
         n, leaves, with_offset)

RECURSIVE UnionFrom(_, _)
UnionFrom(sized, i) ==
  IF i > Len(sized) THEN {} ELSE sized[i] \cup UnionFrom(sized, i + 1)

TreesUpTo(n, leaves, with_offset) ==
  UnionFrom(TreesBySize(<< { <<>> } >>, n, leaves, with_offset), 1)

InstLeaves ==
  { Inst("AddI", 1, <<>>), Inst("AddI", 255, <<>>), Inst("MovePtr", 1, <<>>),
    Inst("MovePtr", -1, <<>>), Inst("Init", 0, <<>>), Inst("GetChar", 0, <<>>),
    Inst("PutChar", 0, <<>>) }

\* The trees optimize_basic and annotate_offset are given, of n nodes at most.
InstTrees(n) == TreesUpTo(n, InstLeaves, FALSE)

OffsetLeaves == { AddI(0, 255), AddI(0, 2), AddI(1, 1), MovePtr(2), PutChar(0) }

\* The input of tests::test_loop_to_addmul.
TestInput == << AddI(0, 2), MovePtr(2), Loop(<< AddI(0, 255), AddI(1, 1) >>) >>

\* The sequences loop_to_addmul is given, of n nodes at most.
OffsetTrees(n) == TreesUpTo(n, OffsetLeaves, TRUE) \cup { TestInput }

\* A pass is about to be applied to a tree drawn from the bounded sets.
InitPasses ==
  \E t \in InstTrees(MaxNodes), first \in { "optimize", "annotate" } :
    StartAt(first, <<>>, <<>>, FreshMemory, 0, t,
            IF first = "annotate" THEN t ELSE <<>>, <<>>)

\* optimize_basic applied to its own result.
OptimizeBasicAgain ==
  /\ pc = "annotate"
  /\ optimized = optimize_basic(tree)
  /\ optimized' = optimize_basic(optimized)
  /\ prev' = optimized
  /\ pc' = "optimized_twice"
  /\ UNCHANGED <<srcVars, raw_insts, tree, insts, execVars, last>>

NextPasses ==
  \/ OptimizeBasic
  \/ OptimizeBasicAgain
  \/ AnnotateOffset
  \/ DelayMovePtr
  \/ RemoveZeroMovePtr
  \/ LoopToAddmul

SpecPasses == InitPasses /\ [][NextPasses]_vars

\* ------------------------------------------------ loop_to_addmul, on trees

InitSplice ==
  \E t \in OffsetTrees(MaxNodes) :
    StartAt("addmul", <<>>, <<>>, FreshMemory, 0, <<>>, <<>>, t)

NextSplice == LoopToAddmul

SpecSplice == InitSplice /\ [][NextSplice]_vars

\* ------------------------------------------- a multiply loop, every counter

\* Most instructions in the body of a multiply loop.
MaxBody == 2

BodyLeaves == { AddI(0, 255), AddI(0, 1), AddI(-1, 3), AddI(1, 3) }

RECURSIVE BodiesOfLen(_)
BodiesOfLen(n) ==
  IF n = 0 THEN { <<>> }
  ELSE { Append(b, a) : b \in BodiesOfLen(n - 1), a \in BodyLeaves }

\* The sum of the deltas the body adds at offset o, mod 256.
RECURSIVE SumAt(_, _, _)
SumAt(body, o, i) ==
  IF i > Len(body) THEN 0
  ELSE WrappingAdd(SumAt(body, o, i + 1), IF body[i].ofs = o THEN body[i].x ELSE 0)

\* Bodies of at most m Adds whose deltas at offset 0 sum to 255.
MultiplyBodies(m) ==
  { b \in UNION { BodiesOfLen(n) : n \in 1..m } : SumAt(b, 0, 1) = 255 }

\* A tape with counter at the pointer 1 and bytes in the cells next to it.
CounterTape(counter) ==
  Memory(30000, StoreCell(StoreCell(StoreCell(EmptyCells, 0, 250), 1, counter), 2, 7))

InitAddMul ==
  \E b \in MultiplyBodies(MaxBody), counter \in 0..255 :
    StartAt("addmul", <<>>, <<>>, CounterTape(counter), 1, <<>>, <<>>, << Loop(b) >>)

NextAddMul ==
  \/ LoopToAddmul
  \/ Exec
  \/ ExecAddI
  \/ ExecInit
  \/ ExecAddMul
  \/ ExecLoop
  \/ ExecLoopBack
  \/ ExecReturn
  \/ ReferencePass

SpecAddMul == InitAddMul /\ [][NextAddMul]_vars

\* ---------------------------------------------------------------- the tape

\* The indexes the tape is read and written at.
TapeIndexes == { 0, 29999, 30000, 40000, 40001, 130000 }

TapeBytes == { 0, 7 }

InitTape == StartAt("tape", <<>>, <<>>, FreshMemory, 0, <<>>, <<>>, <<>>)

\* memory[index], read
TapeRead ==
  /\ pc = "tape"
  /\ \E index \in TapeIndexes :
       last' = [op |-> "read", index |-> index, x |-> 0, before |-> memory,
                got |-> MemIndex(memory, index)]
  /\ UNCHANGED <<srcVars, pc, passVars, execVars>>

\* memory[index] = x
TapeWrite ==
  /\ pc = "tape"
  /\ \E index \in TapeIndexes, x \in TapeBytes :
       LET w == MemStore(memory, index, x, TRUE)
       IN /\ w.panic = ""
          /\ memory' = w.memory
          /\ last' = [op |-> "write", index |-> index, x |-> x, before |-> memory,
                      got |-> 0]
  /\ UNCHANGED <<srcVars, pc, passVars, mode, stack, ptr, cycle_count, stdin,
                 stdout, trace, status, main_run>>

NextTape == TapeRead \/ TapeWrite

SpecTape == InitTape /\ [][NextTape]_vars

\* ------------------------------------------------------------------ claims

Panics ==
  { "panic_unwrap_none", "panic_add_overflow", "panic_capacity_overflow",
    "panic_index_out_of_bounds" }

\* The run of main's sequence and the reference run ended the same way, with the
\* same getchar and putchar calls and bytes and the same value in every cell.
SameEffects ==
  /\ main_run.status = status
  /\ main_run.trace = trace
  /\ main_run.stdout = stdout
  /\ main_run.stdin = stdin
  /\ main_run.cells = memory.cells

\* C1 as stated: whenever the run of the unoptimized tree ends without a fault
\* (exec_body returns Ok, or Err at the end of the input), the run of the
\* optimized sequence has ended the same way, with the same getchar and putchar
\* calls and bytes, the same final pointer and the same value in every cell; and
\* when the unoptimized run has not ended within MaxCycles cycles, neither has
\* the optimized run.
PipelinePreservesPointerToo ==
  /\ (mode = "ref" /\ status \in {"ok", "io_error"}) =>
       SameEffects /\ main_run.ptr = ptr
  /\ (mode = "ref" /\ status = "timeout") => main_run.status = "timeout"

\* C1, amended: as above, but the final pointers are the same when the runs end
\* with Ok; when getchar fails, the pointer moves delay_move_ptr has deferred
\* past the failing GetChar have not been made.
PipelinePreservesSemantics ==
  /\ (mode = "ref" /\ status \in {"ok", "io_error"}) => SameEffects
  /\ (mode = "ref" /\ status = "ok") => main_run.ptr = ptr
  /\ (mode = "ref" /\ status = "timeout") => main_run.status = "timeout"

\* C1's case: a loop was strength-reduced, and both runs did input and output.
PipelineWitness ==
  /\ mode = "ref" /\ status = "ok" /\ main_run.status = "ok"
  /\ \E i \in 1..Len(insts) :
       insts[i].op = "Loop" /\ insts[i].body # <<>> /\ insts[i].body[1].op = "AddMul"
  /\ main_run.cycle_count < cycle_count
  /\ Len(trace) >= 2
  /\ memory.cells # EmptyCells

\* The nesting depth after raw_insts[i..], from depth d; -1 once a LoopEnd has
\* met depth 0.
RECURSIVE DepthFrom(_, _, _)
DepthFrom(raw, i, d) ==
  IF i > Len(raw) THEN d
  ELSE IF raw[i].op = "StartLoop" THEN DepthFrom(raw, i + 1, d + 1)
  ELSE IF raw[i].op = "EndLoop"
       THEN IF d = 0 THEN -1 ELSE DepthFrom(raw, i + 1, d - 1)
  ELSE DepthFrom(raw, i + 1, d)

Balanced(raw) == DepthFrom(raw, 1, 0) = 0

\* C4: once extract_loops has run, main has a tree if and only if the brackets
\* of raw_insts are balanced; otherwise main has stopped with no tree, and
\* nothing has been or will be executed.
TreeIffBalanced ==
  /\ pc \notin {"parse", "extract"} => (pc # "halt" <=> Balanced(raw_insts))
  /\ pc = "halt" =>
       /\ tree = <<>> /\ status \in Panics
       /\ cycle_count = 0 /\ trace = <<>> /\ stack = <<>>
  /\ (status = "running" \/ cycle_count > 0) => Balanced(raw_insts)

\* C4's cases: a LoopEnd with no open loop, and a LoopStart never closed.
UnbalancedWitness ==
  /\ pc = "halt"
  /\ Len(raw_insts) >= 2
  /\ \/ raw_insts[1].op = "EndLoop"
     \/ raw_insts[Len(raw_insts)].op = "StartLoop"

\* The instruction inst, run with the pointer at p, addresses a cell below 0.
NegativeTarget(inst, p) ==
  CASE inst.op \in {"AddI", "Init", "GetChar", "PutChar"} -> p + inst.ofs < 0
    [] inst.op = "MovePtr" -> p + inst.x < 0
    [] inst.op = "AddMul" -> p + inst.ofs < 0 \/ p + inst.ofs2 < 0
    [] OTHER -> FALSE

\* C8: every operation whose address pointer+offset (pointer+delta) is negative
\* ends the run in a hard fault, whatever its kind: none goes on with a wrapped
\* address.
UnderflowAlwaysFaults ==
  [][(Running /\ AtInst /\ NegativeTarget(Cur, ptr)) => status' \in Panics]_vars

\* C8's case: Init, whose address is computed by wrapping_add_signed, has met a
\* negative address, and so has each of the other kinds.
UnderflowWitness ==
  /\ status \in Panics /\ Len(stack) > 0 /\ AtInst
  /\ Cur.op = "Init" /\ NegativeTarget(Cur, ptr)

\* C5: the source `,.` writes the byte it read, one byte, unchanged.
EchoWritesByteUnchanged ==
  (code = <<",", ".">> /\ mode = "main" /\ status = "ok") => stdout = <<stdin0[1]>>

\* A loop-free sequence.
NoLoop(seq) == \A i \in 1..Len(seq) : seq[i].op # "Loop"

\* C6: for the source `,[-]` and every input byte, the optimized sequence holds no
\* Loop; its run takes 2 cycles (GetChar, Init) whatever the byte, and leaves 0 at
\* the pointer; and the unoptimized run leaves the same pointer and cells.
ClearLoopConstantTime ==
  code = <<",", "[", "-", "]">> =>
    /\ pc \in {"exec", "run", "refrun"} => NoLoop(insts)
    /\ (mode = "main" /\ status = "ok") =>
         cycle_count = 2 /\ MemIndex(memory, ptr) = 0
    /\ (mode = "main" /\ pc = "run") => status \in {"running", "ok"}
    /\ (mode = "ref" /\ status = "ok") =>
         /\ main_run.status = "ok" /\ main_run.cycle_count = 2
         /\ main_run.ptr = ptr /\ main_run.cells = memory.cells
         /\ MemIndex(memory, ptr) = 0

\* C6's case: the loop ran 255 times in the unoptimized run.
ClearLoopWitness ==
  /\ code = <<",", "[", "-", "]">> /\ stdin0 = <<255>>
  /\ mode = "ref" /\ status = "ok" /\ cycle_count > 500
  /\ main_run.cycle_count = 2

\* The body of the loop a multiply-loop run was given.
LoopBody == prev[1].body

\* C2: for a loop of Adds whose deltas at offset 0 sum to 255, every counter
\* 0..255: running loop_to_addmul's output and running the Loop itself both end
\* with Ok, with the same cells and pointer; the counter cell is 0 and the cell
\* at each offset o has gained counter times the sum of the deltas at o, mod 256.
AddMulSameAsLoop ==
  /\ (pc \in {"run", "refrun"} /\ status # "running") => status = "ok"
  /\ (mode = "ref" /\ status = "ok") =>
       /\ main_run.status = "ok"
       /\ main_run.cells = memory.cells
       /\ main_run.ptr = ptr /\ ptr = ptr0
       /\ MemIndex(memory, ptr) = 0
       /\ \A o \in {-1, 1} :
            MemIndex(memory, ptr0 + o) =
              WrappingAdd(MemIndex(mem0, ptr0 + o),
                          WrappingMul(MemIndex(mem0, ptr0), SumAt(LoopBody, o, 1)))

\* C2's case: the counter starts at 255 and the loop adds 3 to the cell before it.
AddMulWitness ==
  /\ mode = "ref" /\ status = "ok"
  /\ MemIndex(mem0, ptr0) = 255
  /\ LoopBody = << AddI(0, 255), AddI(-1, 3) >>
  /\ insts = << Loop(<< AddMul(0, -1, 3), InitI(0, 0) >>) >>
  /\ MemIndex(memory, 0) = 247
  /\ main_run.cycle_count < 10 /\ cycle_count > 700

\* What C3 says loop_to_addmul returns: each qualifying Loop replaced, in the
\* enclosing sequence, by its AddMuls and Init(0, 0).
RECURSIVE SplicedFrom(_, _, _)
SplicedFrom(seq, i, result) ==
  IF i > Len(seq) THEN result
  ELSE LET inst == seq[i]
           new_insts == loop_to_addmul_body(inst.body)
       IN SplicedFrom(seq, i + 1,
            IF inst.op # "Loop" THEN Append(result, inst)
            ELSE IF new_insts.some THEN result \o new_insts.val
            ELSE Append(result, Loop(SplicedFrom(inst.body, 1, <<>>))))

\* C3: loop_to_addmul's output holds, in place of every qualifying Loop, the
\* AddMuls and the Init(0, 0) spliced into the enclosing sequence, and every
\* other Loop with its body reduced the same way.
LoopToAddmulSplices ==
  pc = "exec" => insts = SplicedFrom(prev, 1, <<>>)

\* C7: optimize_basic applied to its own result returns that result.
OptimizeBasicIdempotent ==
  pc = "optimized_twice" => optimized = prev

\* C7's case: a loop reduced to Init(0) and an add folded into it.
IdempotentWitness ==
  /\ pc = "optimized_twice"
  /\ tree = << InstLoop(<< Inst("AddI", 255, <<>>) >>), Inst("AddI", 1, <<>>) >>
  /\ optimized = << Inst("Init", 1, <<>>) >>

RECURSIVE NoZeroMovePtr(_)
NoZeroMovePtr(seq) ==
  \A i \in 1..Len(seq) :
    /\ seq[i].op = "MovePtr" => seq[i].x # 0
    /\ seq[i].op = "Loop" => NoZeroMovePtr(seq[i].body)

RECURSIVE MovePtrBeforeLoopOrLast(_)
MovePtrBeforeLoopOrLast(seq) ==
  \A i \in 1..Len(seq) :
    /\ seq[i].op = "MovePtr" => (i = Len(seq) \/ seq[i + 1].op = "Loop")
    /\ seq[i].op = "Loop" => MovePtrBeforeLoopOrLast(seq[i].body)

\* The sum of the MovePtr deltas before position i of seq, since the last Loop
\* or the start of seq.
RECURSIVE PendingAt(_, _)
PendingAt(seq, i) ==
  IF i = 1 THEN 0
  ELSE IF seq[i - 1].op = "Loop" THEN 0
  ELSE IF seq[i - 1].op = "MovePtr" THEN PendingAt(seq, i - 1) + seq[i - 1].x
  ELSE PendingAt(seq, i - 1)

\* The positions of seq, from i on, that hold no MovePtr.
RECURSIVE NonMovesFrom(_, _)
NonMovesFrom(seq, i) ==
  IF i > Len(seq) THEN <<>>
  ELSE IF seq[i].op = "MovePtr" THEN NonMovesFrom(seq, i + 1)
  ELSE <<i>> \o NonMovesFrom(seq, i + 1)

\* out holds the operations of the annotated sequence in but its MovePtrs, in
\* order, each at the offset pending before it in `in`; loop bodies likewise.
RECURSIVE OffsetsAsDeferred(_, _)
OffsetsAsDeferred(in, out) ==
  LET a == NonMovesFrom(in, 1)
      b == NonMovesFrom(out, 1)
  IN /\ Len(a) = Len(b)
     /\ \A k \in 1..Len(a) :
          LET e == in[a[k]]
              f == out[b[k]]
          IN /\ f.op = e.op /\ f.x = e.x
             /\ IF e.op = "Loop" THEN OffsetsAsDeferred(e.body, f.body)
                ELSE f.ofs = PendingAt(in, a[k])

\* C10: after delay_move_ptr and remove_zero_move_ptr of an annotated tree, at
\* every depth: no MovePtr(0); every MovePtr is followed by a Loop or is last;
\* every other operation is at the offset the MovePtrs before it, since the last
\* Loop or the start of its sequence, add up to.
DeferredShape ==
  pc = "addmul" =>
    /\ NoZeroMovePtr(insts)
    /\ MovePtrBeforeLoopOrLast(insts)
    /\ OffsetsAsDeferred(annotate_offset(optimized), insts)

\* C10's case: a MovePtr(0) flushed before a loop was removed, inside a loop, and
\* an operation after the loop carries a deferred offset.
DeferredWitness ==
  /\ pc = "addmul"
  /\ \E i \in 1..Len(prev) :
       /\ prev[i].op = "Loop"
       /\ \E j \in 1..Len(prev[i].body) : prev[i].body[j] = MovePtr(0)
  /\ \E i \in 1..Len(insts) : insts[i].op = "AddI" /\ insts[i].ofs # 0

\* max(a, b, c)
Max3(a, b, c) == Max(a, Max(b, c))

\* C9: a read at or beyond the allocation returns 0 and no read changes the
\* tape; a write at or beyond an allocation of n cells grows it to
\* max(index + 1, 2 * n, 30000) cells, any other write keeps its size; a write
\* keeps every other cell's value, leaves every new cell 0, and stores its byte.
TapeInvariants ==
  LET n == last.before.len
  IN /\ last.op = "read" =>
          /\ memory = last.before
          /\ last.index >= n => last.got = 0
     /\ last.op = "write" =>
          /\ memory.len = IF last.index >= n
                          THEN Max3(last.index + 1, 2 * n, 30000) ELSE n
          /\ memory.len >= n
          /\ MemIndex(memory, last.index) = last.x
          /\ \A j \in (DOMAIN memory.cells \cup DOMAIN last.before.cells
                       \cup TapeIndexes) \ {last.index} :
               MemIndex(memory, j) = MemIndex(last.before, j)
          /\ \A j \in DOMAIN memory.cells : j < memory.len /\ memory.cells[j] # 0

\* C9's case: the write at 40000 on the fresh tape of 30000 cells.
TapeWitness ==
  /\ last.op = "write" /\ last.index = 40000 /\ last.x = 7
  /\ last.before = FreshMemory
  /\ memory.len = 60000
  /\ MemIndex(memory, 40000) = 7
  /\ MemIndex(memory, 30000) = 0 /\ MemIndex(memory, 40001) = 0
  /\ DOMAIN memory.cells = {40000}

=============================================================================
